---- MODULE Spec2Model ----
(***************************************************************************)
(* The client-side websocket glue of bevy-wasm.  The repository holds four *)
(* near-duplicate scripts; each is a program of its own:                   *)
(*   "latest"   src/client/js/foo.js  lines  1-24  (latestMessage)         *)
(*   "example"  src/client/js/foo.js  lines 26-44  (exampleSocket, token)  *)
(*   "plain"    src/unnamed/part_000  lines  1-15  (send only)             *)
(*   "buffer"   src/unnamed/part_000  lines 17-44  (bufferedMessages)      *)
(* The variable variant says which script is the running program.  The     *)
(* browser's WebSocket object and its event loop are the environment:      *)
(* open, close and message events arrive as separate tasks.                *)
(***************************************************************************)
EXTENDS Integers, Sequences, FiniteSets

VARIABLES
    variant,            \* which of the four scripts is loaded
    sockets,            \* every WebSocket object constructed so far
    websocket,          \* `let websocket`: 0 is undefined, else an index of sockets
    latestMessage,      \* `let latestMessage`
    bufferedMessages,   \* `let bufferedMessages`
    arrived,            \* history: payloads of the message events handled, in order
    returned,           \* history: concatenation of what readMessages returned
    lastRead,           \* history: the most recent read and what it returned
    lastCall,           \* history: the most recent sendPosition call and its outcome
    lastMessageOn,      \* history: the socket of the message event just handled, else 0
    hexIn,              \* genRanHex alone: its argument and the Math.random draws
    hexOut              \* genRanHex alone: its result

vars == <<variant, sockets, websocket, latestMessage, bufferedMessages,
          arrived, returned, lastRead, lastCall, lastMessageOn, hexIn, hexOut>>

(* ------------------------------ bounds -------------------------------- *)

MaxOps == 4
MaxCoord == 12
MaxSize == 8
MaxStride == 1
RandDen == 16

(* --------------------------- platform values -------------------------- *)

\* WebSocket.CONNECTING, WebSocket.OPEN, WebSocket.CLOSED: the values of readyState.
\* (CLOSING, 2, is passed through only when the page itself calls close(), which
\* no script does.)
CONNECTING == 0
OPEN == 1
CLOSED == 3

\* The constant OPEN as read from an instance: WebSocket's constants live on the
\* interface and on its prototype, so exampleSocket.OPEN is 1 in every state.
InstanceOPEN == OPEN

Undefined == "undefined"

Variants == {"latest", "example", "plain", "buffer"}
Msgs == {"m1", "m2"}
Coords == {0 - MaxCoord, 0, MaxCoord}

\* `const exampleSocket`: the one socket of the "example" script.
exampleSocket == 1

(* ------------------------------ strings ------------------------------- *)
\* A string is the sequence of its characters.

\* The digits of Number.prototype.toString, for every radix up to 36.
DigitChars == <<"0", "1", "2", "3", "4", "5", "6", "7", "8", "9",
                "a", "b", "c", "d", "e", "f", "g", "h", "i", "j", "k", "l", "m",
                "n", "o", "p", "q", "r", "s", "t", "u", "v", "w", "x", "y", "z">>

RECURSIVE ToStringRadix(_, _)
\* Number.prototype.toString(radix) of a non-negative integer.
ToStringRadix(n, radix) ==
    IF n < radix THEN <<DigitChars[n + 1]>>
    ELSE ToStringRadix(n \div radix, radix) \o <<DigitChars[(n % radix) + 1]>>

\* The text JSON.stringify gives an integer.
NumberToJSON(n) ==
    IF n < 0 THEN <<"-">> \o ToStringRadix(0 - n, 10) ELSE ToStringRadix(n, 10)

\* Mutant: the object is handed to send() without JSON.stringify, so that its
\* conversion to a string is what is transmitted.
SendWithoutStringify(x, y) ==
    <<"[", "o", "b", "j", "e", "c", "t", " ", "O", "b", "j", "e", "c", "t", "]">>

\* JSON.stringify({ x, y }).
JSONStringify(x, y) ==
    <<"{", "\"", "x", "\"", ":">> \o NumberToJSON(x)
        \o <<",", "\"", "y", "\"", ":">> \o NumberToJSON(y) \o <<"}">>

\* What send() puts on the wire for an object that is neither a string nor binary
\* data: its conversion to a string, "[object Object]".
ObjectToString(x, y) ==
    <<"[", "o", "b", "j", "e", "c", "t", " ", "O", "b", "j", "e", "c", "t", "]">>

(* ------------------------------ genRanHex ----------------------------- *)

\* Mutant: the draw scaled by 36, the largest radix, instead of 16.
FloorRandom36(r) == (r * 36) \div RandDen

\* Math.floor(Math.random() * 16) for the draw r / RandDen in [0, 1).
FloorRandom16(r) == (r * 16) \div RandDen

RECURSIVE Join(_)
\* Array.prototype.join('').
Join(parts) == IF parts = <<>> THEN <<>> ELSE Head(parts) \o Join(Tail(parts))

\* genRanHex(size), with draws[i] the outcome of the i-th Math.random() call.
genRanHex(size, draws) ==
    Join([i \in 1..size |-> ToStringRadix(FloorRandom16(draws[i]), 16)])

\* The draws of one call: Math.random() is modelled on the grid k / RandDen, and
\* the sequences of draws are the arithmetic ones (every start, strides up to
\* MaxStride), so that every hexadecimal digit occurs at every position.
DrawSeqs(size) ==
    { [i \in 1..size |-> (a + b * (i - 1)) % RandDen] :
        a \in 0..(RandDen - 1), b \in 0..MaxStride }

(* --------------------------- the connection --------------------------- *)

\* new WebSocket("ws://localhost:3000")
NewSocket == [readyState |-> CONNECTING, sent |-> <<>>, opens |-> 0]

\* WebSocket.send(data) on sock: the error it throws.
SendThrows(sock) ==
    IF sock.readyState = CONNECTING THEN "InvalidStateError" ELSE "none"

\* WebSocket.send(data): the socket afterwards.  Data is transmitted only while the
\* socket is open; after close it is dropped silently.
SendOn(sock, data, by) ==
    IF sock.readyState = OPEN
    THEN [sock EXCEPT !.sent = Append(@, [frame |-> data, by |-> by])]
    ELSE sock

RECURSIVE SentUpTo(_, _)
SentUpTo(socks, i) ==
    IF i = 0 THEN 0 ELSE Len(socks[i].sent) + SentUpTo(socks, i - 1)

\* The number of frames transmitted so far, over all sockets.
WireLen == SentUpTo(sockets, Len(sockets))

\* What bounds a run: the sockets constructed, the frames transmitted and the
\* messages handled number MaxOps at most (the token of "example" aside).
Room == Len(sockets) + WireLen + Len(arrived) < MaxOps

\* The record of a sendPosition call: the socket it used (0: websocket was
\* undefined) and the readyState it had, the arguments, the data handed to send(),
\* the number of frames transmitted, and the error thrown.
Call(ws, before, after, x, y, handed, thrown) ==
    [called |-> TRUE, sock |-> ws,
     ready |-> IF ws = 0 THEN CONNECTING ELSE before[ws].readyState,
     x |-> x, y |-> y, handed |-> handed,
     wired |-> SentUpTo(after, Len(after)) - SentUpTo(before, Len(before)),
     thrown |-> thrown]

NoCall == [called |-> FALSE, sock |-> 0, ready |-> CONNECTING, x |-> 0, y |-> 0,
           handed |-> <<>>, wired |-> 0, thrown |-> "none"]

\* The record of a read: the numbers of messages handled at the previous read and
\* at this one, the value returned, and the value the read before it returned.
\* For the array readMessages returned: aliased says that bufferedMessages is
\* still that same array object, now is what the array holds at present.  For the
\* arrays returned before it: olderAliased says that one of them is the array
\* object bufferedMessages, olderIntact that none has changed since its return.
NoRead == [called |-> FALSE, prev |-> 0, at |-> 0, value |-> <<>>,
           prevValue |-> Undefined, aliased |-> FALSE, now |-> <<>>,
           olderAliased |-> FALSE, olderIntact |-> TRUE]

(* ------------------------------- Init --------------------------------- *)

\* The state once the script has run to its end: "example" constructs its socket
\* at load, the others wait for createWebSocket.
Init ==
    /\ variant \in Variants
    /\ sockets = IF variant = "example" THEN <<NewSocket>> ELSE <<>>
    /\ websocket = 0
    /\ latestMessage = Undefined
    /\ bufferedMessages = <<>>
    /\ arrived = <<>>
    /\ returned = <<>>
    /\ lastRead = NoRead
    /\ lastCall = NoCall
    /\ lastMessageOn = 0
    /\ hexIn = [size |-> 0, draws |-> <<>>, done |-> TRUE]
    /\ hexOut = <<>>

(* ----------------------------- operations ----------------------------- *)

\* createWebSocket(): a new socket replaces the handle.  In "latest" and "buffer"
\* the socket gets an onmessage handler; the sockets made earlier keep theirs.
createWebSocket ==
    /\ variant \in {"latest", "plain", "buffer"}
    /\ Room
    /\ sockets' = Append(sockets, NewSocket)
    /\ websocket' = Len(sockets) + 1
    /\ lastCall' = NoCall
    /\ lastMessageOn' = 0
    /\ UNCHANGED <<variant, latestMessage, bufferedMessages, arrived, returned,
                   lastRead, hexIn, hexOut>>

\* Mutant: onopen sends nothing.
onopenSilent(sock, draws) == sock

\* Mutant: onopen sends the token twice.
onopenTwice(sock, draws) ==
    SendOn(SendOn(sock, genRanHex(8, draws), "onopen"), genRanHex(8, draws), "onopen")

\* exampleSocket.onopen: send the token.
onopen(sock, draws) == SendOn(sock, genRanHex(8, draws), "onopen")

\* The task the browser queues when the connection is established: readyState
\* becomes OPEN and the open event is fired, in one task.
OpenEvent(i) ==
    /\ sockets[i].readyState = CONNECTING
    /\ LET opened == [sockets[i] EXCEPT !.readyState = OPEN, !.opens = @ + 1]
       IN IF variant = "example"
          THEN \E draws \in DrawSeqs(8) :
                   sockets' = [sockets EXCEPT ![i] = onopen(opened, draws)]
          ELSE sockets' = [sockets EXCEPT ![i] = opened]
    /\ lastCall' = NoCall
    /\ lastMessageOn' = 0
    /\ UNCHANGED <<variant, websocket, latestMessage, bufferedMessages, arrived,
                   returned, lastRead, hexIn, hexOut>>

\* The connection fails or the server closes it.  No script handles close.
CloseEvent(i) ==
    /\ sockets[i].readyState \in {CONNECTING, OPEN}
    /\ sockets' = [sockets EXCEPT ![i].readyState = CLOSED]
    /\ lastCall' = NoCall
    /\ lastMessageOn' = 0
    /\ UNCHANGED <<variant, websocket, latestMessage, bufferedMessages, arrived,
                   returned, lastRead, hexIn, hexOut>>

\* Mutant: only the first message is stored.
onmessageLatestKeepFirst(latest, data) == IF latest = Undefined THEN data ELSE latest

\* websocket.onmessage of "latest": latestMessage = event.data
onmessageLatest(latest, data) == data

\* Mutant: unshift instead of push.
onmessageBufferUnshift(buffered, data) == <<data>> \o buffered

\* websocket.onmessage of "buffer": bufferedMessages.push(event.data)
onmessageBuffer(buffered, data) == Append(buffered, data)

\* A message event on socket i (any socket that is open, the current one or one
\* that createWebSocket has replaced: its handler is still attached).
MessageEvent(i, data) ==
    /\ variant \in {"latest", "buffer"}
    /\ sockets[i].readyState = OPEN
    /\ Room
    /\ arrived' = Append(arrived, data)
    /\ latestMessage' = IF variant = "latest"
                        THEN onmessageLatest(latestMessage, data)
                        ELSE latestMessage
    /\ bufferedMessages' = IF variant = "buffer"
                           THEN onmessageBuffer(bufferedMessages, data)
                           ELSE bufferedMessages
    /\ lastRead' =
           IF variant = "buffer"
           THEN [lastRead EXCEPT
                    !.now = IF lastRead.aliased THEN bufferedMessages' ELSE @,
                    !.olderIntact =
                        @ /\ (lastRead.olderAliased =>
                                 bufferedMessages' = bufferedMessages)]
           ELSE lastRead
    /\ lastCall' = NoCall
    /\ lastMessageOn' = i
    /\ UNCHANGED <<variant, sockets, websocket, returned, hexIn, hexOut>>

\* readLatestMessage(): the value it returns.
readLatestMessageResult(latest) == latest

\* Mutant: the read consumes the stored value.
readLatestMessageConsumes ==
    /\ variant = "latest"
    /\ lastRead' = [called |-> TRUE, prev |-> lastRead.at, at |-> Len(arrived),
                    value |-> readLatestMessageResult(latestMessage),
                    prevValue |-> IF lastRead.called THEN lastRead.value
                                  ELSE Undefined,
                    aliased |-> FALSE,
                    now |-> readLatestMessageResult(latestMessage),
                    olderAliased |-> FALSE, olderIntact |-> TRUE]
    /\ latestMessage' = Undefined
    /\ lastCall' = NoCall
    /\ lastMessageOn' = 0
    /\ UNCHANGED <<variant, sockets, websocket, bufferedMessages,
                   arrived, returned, hexIn, hexOut>>

readLatestMessage ==
    /\ variant = "latest"
    /\ lastRead' = [called |-> TRUE, prev |-> lastRead.at, at |-> Len(arrived),
                    value |-> readLatestMessageResult(latestMessage),
                    prevValue |-> IF lastRead.called THEN lastRead.value
                                  ELSE Undefined,
                    aliased |-> FALSE,
                    now |-> readLatestMessageResult(latestMessage),
                    olderAliased |-> FALSE, olderIntact |-> TRUE]
    /\ lastCall' = NoCall
    /\ lastMessageOn' = 0
    /\ UNCHANGED <<variant, sockets, websocket, latestMessage, bufferedMessages,
                   arrived, returned, hexIn, hexOut>>

\* Mutant: the store is not replaced by a fresh array.
readMessagesKeepsStore(buffered) ==
    [messages |-> buffered, bufferedMessages |-> buffered, fresh |-> FALSE]

\* Mutant: the store is emptied in place (bufferedMessages.length = 0), so the
\* array returned is the store itself.
readMessagesClearsInPlace(buffered) ==
    [messages |-> <<>>, bufferedMessages |-> <<>>, fresh |-> FALSE]

\* readMessages(): what the array it returns holds, what bufferedMessages holds
\* afterwards, and whether bufferedMessages is a fresh array object (else it is
\* the array returned).
readMessagesResult(buffered) ==
    [messages |-> buffered, bufferedMessages |-> <<>>, fresh |-> TRUE]

readMessages ==
    /\ variant = "buffer"
    /\ LET r == readMessagesResult(bufferedMessages)
       IN /\ bufferedMessages' = r.bufferedMessages
          /\ returned' = returned \o r.messages
          /\ lastRead' =
                 [called |-> TRUE, prev |-> lastRead.at, at |-> Len(arrived),
                  value |-> r.messages, prevValue |-> Undefined,
                  aliased |-> ~r.fresh, now |-> r.messages,
                  olderAliased |->
                      (lastRead.aliased \/ lastRead.olderAliased) /\ ~r.fresh,
                  olderIntact |->
                      /\ lastRead.olderIntact
                      /\ lastRead.called =>
                             lastRead.value =
                                 IF lastRead.aliased /\ ~r.fresh
                                 THEN r.bufferedMessages ELSE lastRead.now
                      /\ (lastRead.olderAliased /\ ~r.fresh) =>
                             r.bufferedMessages = bufferedMessages]
    /\ lastCall' = NoCall
    /\ lastMessageOn' = 0
    /\ UNCHANGED <<variant, sockets, websocket, latestMessage, arrived, hexIn, hexOut>>

\* `websocket.readyState !== WebSocket.OPEN`: the guard of sendPosition.
NotOpen(sock) == sock.readyState # OPEN

\* sendPosition(x, y) of "latest", "plain" and "buffer": the sockets afterwards and
\* the outcome of the call.  With websocket still undefined, reading
\* websocket.readyState throws a TypeError.
sendPositionResult(ws, socks, x, y) ==
    IF ws = 0
    THEN [sockets |-> socks, call |-> Call(ws, socks, socks, x, y, <<>>, "TypeError")]
    ELSE IF NotOpen(socks[ws])
    THEN [sockets |-> socks, call |-> Call(ws, socks, socks, x, y, <<>>, "none")]
    ELSE LET data == JSONStringify(x, y)
             after == [socks EXCEPT ![ws] = SendOn(@, data, "sendPosition")]
         IN [sockets |-> after,
             call |-> Call(ws, socks, after, x, y, <<data>>, SendThrows(socks[ws]))]

\* Mutant: the call also empties the inbound store.
sendPositionDrainsStore(x, y) ==
    /\ variant \in {"latest", "plain", "buffer"}
    /\ Room
    /\ LET r == sendPositionResult(websocket, sockets, x, y)
       IN /\ sockets' = r.sockets
          /\ lastCall' = r.call
          /\ lastMessageOn' = 0
    /\ bufferedMessages' = <<>>
    /\ latestMessage' = Undefined
    /\ UNCHANGED <<variant, websocket, arrived, returned, lastRead, hexIn, hexOut>>

sendPosition(x, y) ==
    /\ variant \in {"latest", "plain", "buffer"}
    /\ Room
    /\ LET r == sendPositionResult(websocket, sockets, x, y)
       IN /\ sockets' = r.sockets
          /\ lastCall' = r.call
          /\ lastMessageOn' = 0
    /\ UNCHANGED <<variant, websocket, latestMessage, bufferedMessages, arrived,
                   returned, lastRead, hexIn, hexOut>>

\* Mutant: the guard reads readyState, as the other scripts do.
NotOpenExampleReadyState(sock) == sock.readyState # OPEN

\* `!exampleSocket.OPEN`: the guard of sendPosition in "example".  It reads the
\* constant OPEN off the instance, not the socket's readyState.
NotOpenExample(sock) == InstanceOPEN = 0

\* sendPosition(x, y) of "example": exampleSocket.send({x, y}).
sendPositionExampleResult(socks, x, y) ==
    IF NotOpenExample(socks[exampleSocket])
    THEN [sockets |-> socks,
          call |-> Call(exampleSocket, socks, socks, x, y, <<>>, "none")]
    ELSE LET data == ObjectToString(x, y)
             after == [socks EXCEPT
                          ![exampleSocket] = SendOn(@, data, "sendPosition")]
         IN [sockets |-> after,
             call |-> Call(exampleSocket, socks, after, x, y, <<data>>,
                           SendThrows(socks[exampleSocket]))]

sendPositionExample(x, y) ==
    /\ variant = "example"
    /\ Room
    /\ LET r == sendPositionExampleResult(sockets, x, y)
       IN /\ sockets' = r.sockets
          /\ lastCall' = r.call
          /\ lastMessageOn' = 0
    /\ UNCHANGED <<variant, websocket, latestMessage, bufferedMessages, arrived,
                   returned, lastRead, hexIn, hexOut>>

(* ------------------------------- Spec --------------------------------- *)

Next ==
    \/ createWebSocket
    \/ \E i \in DOMAIN sockets : OpenEvent(i)
    \/ \E i \in DOMAIN sockets : CloseEvent(i)
    \/ \E i \in DOMAIN sockets, data \in Msgs : MessageEvent(i, data)
    \/ readLatestMessage
    \/ readMessages
    \/ \E x \in Coords, y \in Coords : sendPosition(x, y)
    \/ \E x \in Coords, y \in Coords : sendPositionExample(x, y)

Spec == Init /\ [][Next]_vars

(* -------------------------- genRanHex alone --------------------------- *)

\* A call genRanHex(size) for a size in 0..MaxSize, with its draws chosen.
InitHex ==
    /\ variant = "plain"
    /\ sockets = <<>>
    /\ websocket = 0
    /\ latestMessage = Undefined
    /\ bufferedMessages = <<>>
    /\ arrived = <<>>
    /\ returned = <<>>
    /\ lastRead = NoRead
    /\ lastCall = NoCall
    /\ lastMessageOn = 0
    /\ \E size \in 0..MaxSize : \E draws \in DrawSeqs(size) :
           hexIn = [size |-> size, draws |-> draws, done |-> FALSE]
    /\ hexOut = <<>>

CallGenRanHex ==
    /\ ~hexIn.done
    /\ hexOut' = genRanHex(hexIn.size, hexIn.draws)
    /\ hexIn' = [hexIn EXCEPT !.done = TRUE]
    /\ UNCHANGED <<variant, sockets, websocket, latestMessage, bufferedMessages,
                   arrived, returned, lastRead, lastCall, lastMessageOn>>

NextHex == CallGenRanHex

SpecHex == InitHex /\ [][NextHex]_vars

(* ------------------------------ properties ---------------------------- *)

UsesReadyState == variant \in {"latest", "plain", "buffer"}

\* The frames transmitted on the socket of "example".
ExampleSent == sockets[exampleSocket].sent

Last(seq) == seq[Len(seq)]

\* C1: in every variant, whatever sendPosition hands to send() is handed over
\* while the socket's readyState is OPEN (the code does not keep this: the
\* "example" script hands data over in every state).
C1_SendOnlyWhileOpen ==
    (lastCall.called /\ lastCall.handed # <<>>) => lastCall.ready = OPEN

\* C2: buffering variant: the concatenation of everything readMessages has
\* returned is the sequence of messages that arrived before the last read, in
\* arrival order: nothing lost, duplicated or reordered.
C2_ReadsConcatenateArrivals ==
    variant = "buffer" => returned = SubSeq(arrived, 1, lastRead.at)

C2_Witness ==
    /\ variant = "buffer"
    /\ lastRead.called
    /\ 0 < lastRead.prev
    /\ lastRead.prev < lastRead.at
    /\ Len(returned) = 3
    /\ returned[1] # returned[2]

\* C3: buffering variant: a readMessages call returns exactly the messages that
\* arrived since the previous call (or since the start) and leaves the store
\* empty, so the store holds exactly the arrivals since the last read, and a read
\* that follows another with no arrival in between returns the empty sequence.
C3_ReadReturnsArrivalsSincePrevious ==
    variant = "buffer" =>
        /\ bufferedMessages = SubSeq(arrived, lastRead.at + 1, Len(arrived))
        /\ lastRead.called =>
               /\ lastRead.value = SubSeq(arrived, lastRead.prev + 1, lastRead.at)
               /\ lastRead.at = Len(arrived) => bufferedMessages = <<>>
               /\ lastRead.prev = lastRead.at => lastRead.value = <<>>

C3_Witness ==
    /\ variant = "buffer"
    /\ lastRead.called
    /\ lastRead.prev = lastRead.at
    /\ lastRead.at = 2
    /\ lastRead.value = <<>>
    /\ Len(arrived) = 3
    /\ bufferedMessages # <<>>

C5_TokenIsFirstFrame ==
    variant = "example" =>
        \A i \in DOMAIN ExampleSent :
            /\ ExampleSent[1].by = "onopen"
            /\ ExampleSent[i].by = "sendPosition" => i > 1

C5_Witness ==
    /\ variant = "example"
    /\ Len(ExampleSent) >= 2
    /\ ExampleSent[1].by = "onopen"
    /\ ExampleSent[2].by = "sendPosition"
    /\ lastCall.called

HexDigits == {"0", "1", "2", "3", "4", "5", "6", "7", "8", "9",
              "a", "b", "c", "d", "e", "f"}

\* C6: genRanHex(size) returns a string of length size whose characters are all
\* lowercase hexadecimal digits, for every outcome of the draws; so genRanHex(8)
\* is 8 lowercase hexadecimal characters.
C6_GenRanHexIsLowercaseHex ==
    hexIn.done =>
        /\ Len(hexOut) = hexIn.size
        /\ \A i \in DOMAIN hexOut : hexOut[i] \in HexDigits

C6_Witness ==
    /\ hexIn.done
    /\ hexIn.size = 8
    /\ Len(hexOut) = 8
    /\ hexOut[1] = "9"
    /\ hexOut[2] = "a"
    /\ hexOut[7] = "f"
    /\ hexOut[8] = "0"

TokenFrames == {i \in DOMAIN ExampleSent : ExampleSent[i].by = "onopen"}

\* C7: token-handshake variant: no token frame is transmitted before the
\* connection opens, exactly one has been once it has opened, and never a second.
C7_TokenSentOnce ==
    variant = "example" =>
        /\ Cardinality(TokenFrames) = sockets[exampleSocket].opens
        /\ Cardinality(TokenFrames) <= 1
        /\ sockets[exampleSocket].readyState = CONNECTING => TokenFrames = {}
        /\ sockets[exampleSocket].readyState = OPEN => Cardinality(TokenFrames) = 1

C7_Witness ==
    /\ variant = "example"
    /\ sockets[exampleSocket].readyState = CLOSED
    /\ Len(ExampleSent) = 3
    /\ Cardinality(TokenFrames) = 1

RECURSIVE DecimalValue(_)
DecimalValue(chars) ==
    IF chars = <<>> THEN 0
    ELSE 10 * DecimalValue(SubSeq(chars, 1, Len(chars) - 1))
         + (CHOOSE d \in 0..9 : DigitChars[d + 1] = Last(chars))

\* chars is a JSON integer: an optional minus sign, then digits, no leading zero.
IsJSONInt(chars) ==
    LET digits == IF chars # <<>> /\ chars[1] = "-" THEN Tail(chars) ELSE chars
    IN /\ digits # <<>>
       /\ \A i \in DOMAIN digits : \E d \in 0..9 : DigitChars[d + 1] = digits[i]
       /\ Len(digits) > 1 => digits[1] # "0"

\* JSON.parse of a JSON integer.
JSONIntValue(chars) ==
    IF chars[1] = "-" THEN 0 - DecimalValue(Tail(chars)) ELSE DecimalValue(chars)

\* text is the JSON text of an object with exactly the fields x and y, in that
\* order, holding the integers x and y.
IsJSONPosition(text, x, y) ==
    \E c \in DOMAIN text :
        /\ text[c] = ","
        /\ SubSeq(text, 1, 5) = <<"{", "\"", "x", "\"", ":">>
        /\ SubSeq(text, c, c + 4) = <<",", "\"", "y", "\"", ":">>
        /\ Last(text) = "}"
        /\ LET nx == SubSeq(text, 6, c - 1)
               ny == SubSeq(text, c + 5, Len(text) - 1)
           IN /\ IsJSONInt(nx) /\ JSONIntValue(nx) = x
              /\ IsJSONInt(ny) /\ JSONIntValue(ny) = y

\* C9: in the variants guarded by readyState, a sendPosition(x, y) call made
\* while the connection is open transmits exactly one frame, the JSON text of an
\* object with exactly the fields x and y holding the arguments; a call made
\* while it is not open transmits nothing and hands nothing to send().
C9_OpenSendsOneJSONFrame ==
    (UsesReadyState /\ lastCall.called) =>
        IF lastCall.sock # 0 /\ lastCall.ready = OPEN
        THEN /\ lastCall.wired = 1
             /\ Len(lastCall.handed) = 1
             /\ Last(sockets[lastCall.sock].sent) =
                    [frame |-> lastCall.handed[1], by |-> "sendPosition"]
             /\ IsJSONPosition(lastCall.handed[1], lastCall.x, lastCall.y)
        ELSE /\ lastCall.wired = 0
             /\ lastCall.handed = <<>>

C9_Witness ==
    /\ UsesReadyState
    /\ lastCall.called
    /\ lastCall.ready = OPEN
    /\ lastCall.wired = 1
    /\ lastCall.x < 0
    /\ lastCall.y > 9
    /\ Len(sockets[lastCall.sock].sent) = 2

\* C10: sendPosition never raises an error, in any state of the connection
\* lifecycle, also before createWebSocket has been called, and is a no-op
\* whenever the connection is not open (the code does not keep this: with
\* websocket undefined the call throws a TypeError).
C10_SendPositionNeverThrows ==
    (UsesReadyState /\ lastCall.called) =>
        /\ lastCall.thrown = "none"
        /\ (lastCall.sock = 0 \/ lastCall.ready # OPEN) => lastCall.wired = 0

\* C11: a sendPosition call, in every state, leaves the buffered messages, the
\* latest message and the connection handle as they were; the inbound store
\* changes only in a step that handles a message or performs a read.
C11_SendPositionLeavesInboundAlone ==
    [][ /\ lastCall'.called =>
              UNCHANGED <<bufferedMessages, latestMessage, websocket, arrived>>
        /\ <<bufferedMessages, latestMessage>>' # <<bufferedMessages, latestMessage>>
              => (arrived' # arrived \/ lastRead' # lastRead) ]_vars

C11_Witness ==
    /\ variant = "buffer"
    /\ lastCall.called
    /\ lastCall.wired = 1
    /\ Len(bufferedMessages) = 2
    /\ websocket = 1

\* C12: buffering variant: an array readMessages has returned holds what it held
\* when it was returned, whatever messages arrive and whatever reads are made
\* afterwards.
C12_ReturnedArrayIsSnapshot ==
    (variant = "buffer" /\ lastRead.called) =>
        /\ lastRead.now = lastRead.value
        /\ lastRead.olderIntact

C12_Witness ==
    /\ variant = "buffer"
    /\ lastRead.called
    /\ lastRead.prev = 1
    /\ lastRead.at = 2
    /\ Len(lastRead.now) = 1
    /\ Len(arrived) = 3
    /\ Len(bufferedMessages) = 1

\* C13: latest-only variant: readLatestMessage does not consume the stored
\* value: a call made with no message handled since the previous call returns
\* what that call returned, the store still holds the value returned, and a call
\* made before any message has arrived returns undefined.
C13_ReadLatestDoesNotConsume ==
    (variant = "latest" /\ lastRead.called) =>
        /\ lastRead.at = 0 => lastRead.value = Undefined
        /\ lastRead.prev = lastRead.at => lastRead.value = lastRead.prevValue
        /\ lastRead.at = Len(arrived) => latestMessage = lastRead.value

C13_Witness ==
    /\ variant = "latest"
    /\ lastRead.called
    /\ lastRead.prev = 2
    /\ lastRead.at = 2
    /\ lastRead.value \in Msgs
    /\ lastRead.prevValue = lastRead.value

\* C14: only the connection createWebSocket made last is used: sendPosition
\* transmits only on it, and a message enters the inbound store only when it
\* arrives on it (the code does not keep the second half: a socket that has been
\* replaced stays open with its handler attached).
C14_OnlyLatestConnectionUsed ==
    UsesReadyState =>
        /\ (lastCall.called /\ lastCall.wired > 0) =>
               (lastCall.sock = websocket /\ websocket = Len(sockets))
        /\ lastMessageOn # 0 => lastMessageOn = websocket

====
